---- MODULE Spec2Model ----
(***************************************************************************)
(* RaceSelectionMenu (src/src/menu.py): the race selection window as a     *)
(* state machine.  The state is the window object's fields; one action per *)
(* toolkit handler (on_mouse_press, on_mouse_scroll, on_key_press).  Init  *)
(* is the state __init__ leaves behind.  The toolkit's run loop is single  *)
(* threaded and delivers events only to a window that has not been closed. *)
(***************************************************************************)
EXTENDS Integers, Sequences, FiniteSets, TLC

VARIABLES
    current_year,     \* self.current_year
    selected_round,   \* self.selected_round   (None or Some(int))
    selected_event,   \* self.selected_event   (None or Some(event))
    session_type,     \* self.session_type     ("R", "Q", "S")
    events,           \* self.events           (sequence of events)
    loading,          \* self.loading
    error_message,    \* self.error_message    (None or Some(string))
    scroll_offset,    \* self.scroll_offset
    year_buttons,     \* self.year_buttons     (sequence of descriptors)
    race_buttons,     \* self.race_buttons     (sequence of descriptors)
    closed,           \* the window has been close()d
    calls,            \* the invocations of self.on_race_selected, in order
    last              \* the event the loop delivered last, and its load outcome

menu_vars == <<current_year, selected_round, selected_event, session_type,
               events, loading, error_message, scroll_offset, year_buttons,
               race_buttons, closed, calls>>

vars == <<current_year, selected_round, selected_event, session_type,
          events, loading, error_message, scroll_offset, year_buttons,
          race_buttons, closed, calls, last>>

-----------------------------------------------------------------------------
(* Bounds of the model. *)

\* datetime.now().year ranges over FirstYear .. FirstYear + MaxYearButtons - 1
MaxYearButtons == 2
\* the longest season the event source returns
MaxEvents == 10
\* the largest |scroll_y| the toolkit delivers in one scroll event
MaxScrollY == 2

-----------------------------------------------------------------------------
(* Python's None and a present value. *)

None == <<>>
Some(v) == <<v>>

\* Python truthiness of an optional integer: None and 0 are falsy.
Truthy(opt) == opt # None /\ opt[1] # 0

-----------------------------------------------------------------------------
(* The event source (src.f1_data.get_season_events): for a year it returns *)
(* a list of events or raises.                                             *)

FirstYear == 2018

Event(year, r) ==
    [round |-> r, name |-> <<"Grand Prix", year, r>>, has_sprint |-> (r % 3 = 2)]

\* a season of n events whose rounds start at `first`
Season(year, first, n) == [i \in 1..n |-> Event(year, first + i - 1)]

\* the lists get_season_events(year) may return: an empty calendar, a short
\* one that opens with round 0 (pre-season testing), a long one
get_season_events(year) ==
    { Season(year, 1, 0), Season(year, 0, 2), Season(year, 1, MaxEvents) }

\* the outcomes of one call: a returned list, or an exception
LoadOutcomes(year) ==
    { [raised |-> FALSE, value |-> s] : s \in get_season_events(year) }
    \cup { [raised |-> TRUE, value |-> <<>>] }

-----------------------------------------------------------------------------
(* setup_ui_regions *)

YearButtons(now, cur) ==
    [i \in 1..(now + 1 - FirstYear) |->
        [year |-> FirstYear + i - 1,
         rect |-> <<120 + (i - 1) * 110, 655, 100, 45>>,
         selected |-> (FirstYear + i - 1 = cur)]]

session_buttons ==
    << [type |-> "R", label |-> "Race",       rect |-> <<150, 110, 140, 50>>],
       [type |-> "Q", label |-> "Qualifying", rect |-> <<150 + 160, 110, 140, 50>>],
       [type |-> "S", label |-> "Sprint",     rect |-> <<150 + 320, 110, 140, 50>>] >>

launch_button_rect == <<700, 110, 280, 50>>

max_visible_races == 8

-----------------------------------------------------------------------------
(* create_race_buttons *)

create_race_buttons(evs, offset) ==
    [i \in 1..Len(evs) |->
        LET y == 580 - ((i - 1) * 50) + offset
        IN  [event |-> evs[i],
             rect |-> <<50, y, 1000, 45>>,
             visible |-> (210 < y /\ y < 620)]]

-----------------------------------------------------------------------------
(* load_events: the fields it leaves behind, given the outcome of          *)
(* get_season_events and the scroll offset and race buttons it found.      *)

ErrorText == "Error loading events: e"

\* load_events with loading cleared inside the try block instead of in a
\* finally clause: a load that raises leaves loading set
load_events_no_finally(outcome, offset, buttons) ==
    IF outcome.raised
    THEN [events |-> <<>>,
          scroll_offset |-> offset,
          race_buttons |-> buttons,
          error_message |-> Some(ErrorText),
          loading |-> TRUE]
    ELSE [events |-> outcome.value,
          scroll_offset |-> 0,
          race_buttons |-> create_race_buttons(outcome.value, 0),
          error_message |-> None,
          loading |-> FALSE]

load_events(outcome, offset, buttons) ==
    IF outcome.raised
    THEN [events |-> <<>>,
          scroll_offset |-> offset,
          race_buttons |-> buttons,
          error_message |-> Some(ErrorText),
          loading |-> FALSE]
    ELSE [events |-> outcome.value,
          scroll_offset |-> 0,
          race_buttons |-> create_race_buttons(outcome.value, 0),
          error_message |-> None,
          loading |-> FALSE]

-----------------------------------------------------------------------------
(* point_in_rect *)

\* point_in_rect without the test against the rectangle's right edge
point_in_rect_no_right_edge(point, rect) ==
    /\ rect[1] <= point[1]
    /\ rect[2] <= point[2] /\ point[2] <= rect[2] + rect[4]

point_in_rect(point, rect) ==
    /\ rect[1] <= point[1] /\ point[1] <= rect[1] + rect[3]
    /\ rect[2] <= point[2] /\ point[2] <= rect[2] + rect[4]

-----------------------------------------------------------------------------
(* __init__ *)

NowYears == FirstYear .. (FirstYear + MaxYearButtons - 1)

LastEvent(op, x, y, arg, load) ==
    [op |-> op, x |-> x, y |-> y, arg |-> arg, load |-> load]

LoadTag(outcome) == IF outcome.raised THEN "raise" ELSE "ok"

Init ==
    \E now \in NowYears : \E outcome \in LoadOutcomes(now) :
        LET loaded == load_events(outcome, 0, <<>>) IN
        /\ current_year = now
        /\ selected_round = None
        /\ selected_event = None
        /\ session_type = "R"
        /\ events = loaded.events
        /\ loading = loaded.loading
        /\ error_message = loaded.error_message
        /\ scroll_offset = loaded.scroll_offset
        /\ year_buttons = YearButtons(now, now)
        /\ race_buttons = loaded.race_buttons
        /\ closed = FALSE
        /\ calls = <<>>
        /\ last = LastEvent("init", 0, 0, "", LoadTag(outcome))

-----------------------------------------------------------------------------
(* launch_replay *)

\* launch_replay that invokes the callback and leaves the window open
launch_replay_no_close ==
    IF selected_round = None
    THEN UNCHANGED <<calls, closed>>
    ELSE /\ calls' = Append(calls, <<current_year, selected_round[1], session_type>>)
         /\ UNCHANGED closed

\* launch_replay guarded by truthiness, as on_key_press is: round 0 does not launch
launch_replay_truthy ==
    IF ~Truthy(selected_round)
    THEN UNCHANGED <<calls, closed>>
    ELSE /\ calls' = Append(calls, <<current_year, selected_round[1], session_type>>)
         /\ closed' = TRUE

\* launch_replay without the guard on selected_round
launch_replay_no_guard ==
    /\ calls' = Append(calls, <<current_year, selected_round, session_type>>)
    /\ closed' = TRUE

launch_replay ==
    IF selected_round = None
    THEN UNCHANGED <<calls, closed>>
    ELSE /\ calls' = Append(calls, <<current_year, selected_round[1], session_type>>)
         /\ closed' = TRUE

-----------------------------------------------------------------------------
(* on_mouse_press *)

\* the first index of seq whose element satisfies hit, 0 when there is none
Min(S) == CHOOSE m \in S : \A n \in S : m <= n
FirstYearHit(p) ==
    LET S == { i \in DOMAIN year_buttons : point_in_rect(p, year_buttons[i].rect) }
    IN  IF S = {} THEN 0 ELSE Min(S)
FirstRaceHit(p) ==
    LET S == { i \in DOMAIN race_buttons :
                 race_buttons[i].visible /\ point_in_rect(p, race_buttons[i].rect) }
    IN  IF S = {} THEN 0 ELSE Min(S)
FirstSessionHit(p) ==
    LET S == { i \in DOMAIN session_buttons : point_in_rect(p, session_buttons[i].rect) }
    IN  IF S = {} THEN 0 ELSE Min(S)

\* the points the mouse is pressed at: inside, on the edge of, between and
\* beside the year buttons, the race rows, the session buttons and the
\* launch button
Points ==
    { <<170, 680>>, <<230, 655>>, <<225, 680>>, <<170, 640>>,
      <<50, 625>>, <<500, 600>>, <<500, 578>>, <<500, 240>>, <<500, 200>>,
      <<1051, 600>>,
      <<150, 110>>, <<400, 130>>, <<500, 160>>, <<300, 130>>, <<650, 130>>,
      <<700, 110>>, <<980, 160>>, <<840, 130>>, <<981, 130>>,
      <<40, 100>> }

on_mouse_press(x, y) ==
    LET p == <<x, y>>
        yi == FirstYearHit(p)
        ri == FirstRaceHit(p)
        si == FirstSessionHit(p)
    IN
    IF yi # 0 THEN
        \E outcome \in LoadOutcomes(year_buttons[yi].year) :
            LET loaded == load_events(outcome, scroll_offset, race_buttons) IN
            /\ current_year' = year_buttons[yi].year
            /\ year_buttons' = [i \in DOMAIN year_buttons |->
                                  [year_buttons[i] EXCEPT
                                     !.selected = (year_buttons[i].year = year_buttons[yi].year)]]
            /\ events' = loaded.events
            /\ scroll_offset' = loaded.scroll_offset
            /\ race_buttons' = loaded.race_buttons
            /\ error_message' = loaded.error_message
            /\ loading' = loaded.loading
            /\ last' = LastEvent("press", x, y, "", LoadTag(outcome))
            /\ UNCHANGED <<selected_round, selected_event, session_type, closed, calls>>
    ELSE IF ri # 0 THEN
        /\ selected_event' = Some(race_buttons[ri].event)
        /\ selected_round' = Some(race_buttons[ri].event.round)
        /\ last' = LastEvent("press", x, y, "", "none")
        /\ UNCHANGED <<current_year, session_type, events, loading, error_message,
                       scroll_offset, year_buttons, race_buttons, closed, calls>>
    ELSE IF si # 0 THEN
        /\ session_type' = session_buttons[si].type
        /\ last' = LastEvent("press", x, y, "", "none")
        /\ UNCHANGED <<current_year, selected_round, selected_event, events, loading,
                       error_message, scroll_offset, year_buttons, race_buttons,
                       closed, calls>>
    ELSE IF point_in_rect(p, launch_button_rect) THEN
        /\ launch_replay
        /\ last' = LastEvent("press", x, y, "", "none")
        /\ UNCHANGED <<current_year, selected_round, selected_event, session_type,
                       events, loading, error_message, scroll_offset, year_buttons,
                       race_buttons>>
    ELSE
        /\ last' = LastEvent("press", x, y, "", "none")
        /\ UNCHANGED menu_vars

MousePress ==
    /\ ~closed
    /\ \E p \in Points : on_mouse_press(p[1], p[2])

-----------------------------------------------------------------------------
(* on_mouse_scroll *)

Max2(a, b) == IF a >= b THEN a ELSE b
Min2(a, b) == IF a <= b THEN a ELSE b

on_mouse_scroll(scroll_y) ==
    LET moved == scroll_offset + scroll_y * 25
        max_scroll == Max2(0, (Len(events) - max_visible_races) * 50)
        clamped == Max2(-max_scroll, Min2(0, moved))
    IN
    /\ scroll_offset' = clamped
    /\ race_buttons' = create_race_buttons(events, clamped)
    /\ last' = LastEvent("scroll", 0, 0, "", "none")
    /\ UNCHANGED <<current_year, selected_round, selected_event, session_type,
                   events, loading, error_message, year_buttons, closed, calls>>

MouseScroll ==
    /\ ~closed
    /\ \E scroll_y \in (-MaxScrollY..MaxScrollY) \ {0} : on_mouse_scroll(scroll_y)

-----------------------------------------------------------------------------
(* on_key_press *)

Keys == {"ESCAPE", "ENTER", "SPACE"}

on_key_press(key) ==
    /\ IF key = "ESCAPE" THEN
           /\ closed' = TRUE
           /\ UNCHANGED calls
       ELSE IF key = "ENTER" /\ Truthy(selected_round) THEN
           launch_replay
       ELSE
           UNCHANGED <<calls, closed>>
    /\ last' = LastEvent("key", 0, 0, key, "none")
    /\ UNCHANGED <<current_year, selected_round, selected_event, session_type,
                   events, loading, error_message, scroll_offset, year_buttons,
                   race_buttons>>

KeyPress ==
    /\ ~closed
    /\ \E key \in Keys : on_key_press(key)

-----------------------------------------------------------------------------

Next == MousePress \/ MouseScroll \/ KeyPress

Spec == Init /\ [][Next]_vars

-----------------------------------------------------------------------------
(* Geometry used to state the properties: a point lies in a rectangle      *)
(* (x, y, w, h) when it is within its closed bounds.                       *)

InsideRect(x, y, r) ==
    /\ x >= r[1] /\ x <= r[1] + r[3]
    /\ y >= r[2] /\ y <= r[2] + r[4]

InSomeYearRect(x, y) ==
    \E i \in DOMAIN year_buttons : InsideRect(x, y, year_buttons[i].rect)
InSomeRaceRect(x, y) ==
    \E i \in DOMAIN race_buttons : InsideRect(x, y, race_buttons[i].rect)
InSomeVisibleRaceRect(x, y) ==
    \E i \in DOMAIN race_buttons :
        race_buttons[i].visible /\ InsideRect(x, y, race_buttons[i].rect)
InSomeSessionRect(x, y) ==
    \E i \in DOMAIN session_buttons : InsideRect(x, y, session_buttons[i].rect)
InLaunchRect(x, y) == InsideRect(x, y, <<700, 110, 280, 50>>)

\* the launch rectangle, and no year, visible race-row or session rectangle
InLaunchOnly(x, y) ==
    /\ InLaunchRect(x, y)
    /\ ~InSomeYearRect(x, y)
    /\ ~InSomeVisibleRaceRect(x, y)
    /\ ~InSomeSessionRect(x, y)

OutsideEveryRect(x, y) ==
    /\ ~InSomeYearRect(x, y)
    /\ ~InSomeRaceRect(x, y)
    /\ ~InSomeSessionRect(x, y)
    /\ ~InLaunchRect(x, y)

-----------------------------------------------------------------------------
(* Properties. *)

\* C1: whenever a round is selected, some event of the currently loaded
\* list has that round number.
C1_SelectedRoundInEvents ==
    selected_round # None =>
        \E i \in DOMAIN events : events[i].round = selected_round[1]

\* C2: scroll_offset always lies in [-max_scroll, 0], with
\* max_scroll = max(0, (len(events) - 8) * 50) of the currently loaded list.
C2_ScrollClamped ==
    LET max_scroll == IF (Len(events) - 8) * 50 > 0 THEN (Len(events) - 8) * 50 ELSE 0
    IN  -max_scroll <= scroll_offset /\ scroll_offset <= 0

\* C3: the callback is invoked at most once over the window's life, and once
\* it has been invoked the window is closed (so no later event invokes it).
C3_CallbackAtMostOnce ==
    /\ Len(calls) <= 1
    /\ (Len(calls) = 1 => closed)

C3_Witness == closed /\ Len(calls) = 1

\* C4: with a round r selected, a press at a point of the launch rectangle
\* that is in no year, visible race-row or session rectangle invokes the
\* callback exactly once, with (current_year, r, session_type) as they stand,
\* and closes the window.
C4_LaunchClick ==
    [][ (/\ last'.op = "press"
         /\ selected_round # None
         /\ InLaunchOnly(last'.x, last'.y))
        => /\ calls' = Append(calls, <<current_year, selected_round[1], session_type>>)
           /\ closed'
           /\ UNCHANGED <<current_year, selected_round, session_type>> ]_vars

C4_Witness ==
    /\ last.op = "press"
    /\ InLaunchOnly(last.x, last.y)
    /\ selected_round # None
    /\ closed
    /\ calls = << <<current_year, selected_round[1], session_type>> >>

\* C5: after a click inside a year button, whether or not the event source
\* raised, current_year is that button's year, events is a list loaded for
\* that year (or empty), and scroll_offset is 0.
C5_YearClickResets ==
    \A i \in DOMAIN year_buttons :
        (last.op = "press" /\ InsideRect(last.x, last.y, year_buttons[i].rect))
        => /\ current_year = year_buttons[i].year
           /\ (events = <<>> \/ events \in get_season_events(year_buttons[i].year))
           /\ scroll_offset = 0

\* C6: after Enter is pressed with any round selected (0 included), the
\* callback has been invoked with (current_year, selected_round,
\* session_type) and the window is closed.
C6_EnterLaunches ==
    (last.op = "key" /\ last.arg = "ENTER" /\ selected_round # None)
    => /\ closed
       /\ Len(calls) > 0
       /\ calls[Len(calls)] = <<current_year, selected_round[1], session_type>>

\* C7: a load that raises leaves error_message set, events empty, loading
\* false and the window open; a load that succeeds after a failure leaves
\* error_message null.
C7_LoadFailureHandled ==
    /\ [](last.load = "raise" =>
            /\ error_message # None
            /\ events = <<>>
            /\ loading = FALSE
            /\ ~closed)
    /\ [][ (error_message # None /\ last'.load = "ok") => error_message' = None ]_vars

C7_Witness ==
    /\ last.op = "press"
    /\ last.load = "raise"
    /\ error_message # None

\* C8: a press at a point inside none of the year, race-row, session or
\* launch rectangles changes no field, invokes no callback and leaves the
\* window open.
C8_PressOutsideChangesNothing ==
    [][ (last'.op = "press" /\ OutsideEveryRect(last'.x, last'.y))
        => UNCHANGED menu_vars ]_vars

C8_Witness ==
    /\ last.op = "press"
    /\ OutsideEveryRect(last.x, last.y)
    /\ race_buttons # <<>>
    /\ ~closed

\* C9: while no round is selected, a click on the launch rectangle and an
\* Enter key press are no-ops: no callback, window open, no field changed.
C9_LaunchWithoutRoundIsNoOp ==
    [][ (/\ selected_round = None
         /\ \/ (last'.op = "key" /\ last'.arg = "ENTER")
            \/ (last'.op = "press" /\ InLaunchRect(last'.x, last'.y)))
        => UNCHANGED menu_vars ]_vars

C9_Witness ==
    /\ last.op = "press"
    /\ InLaunchRect(last.x, last.y)
    /\ selected_round = None
    /\ ~closed
    /\ calls = <<>>

\* C10: race_buttons always holds one entry per event of the loaded list,
\* in order, the i-th at (50, 580 - 50*i + scroll_offset, 1000, 45) and
\* visible iff 210 < y < 620.
C10_RaceButtonsMatchEvents ==
    /\ Len(race_buttons) = Len(events)
    /\ \A i \in DOMAIN race_buttons :
          LET y == 580 - 50 * (i - 1) + scroll_offset IN
          /\ race_buttons[i].event = events[i]
          /\ race_buttons[i].rect = <<50, y, 1000, 45>>
          /\ race_buttons[i].visible = (210 < y /\ y < 620)

====
